---- MODULE Spec2Model ----
(***************************************************************************)
(* Model of the UDP shreds client (src/src/main.rs): the fragment          *)
(* reassembler, the instruction scanner and the receive loop of main.      *)
(*                                                                         *)
(* Time is counted in whole seconds.  A byte is a number in 0..255 and a   *)
(* packet is a sequence of bytes.  Option<T> is a sequence: None is <<>>   *)
(* and Some(x) is <<x>>.  A HashMap is a function on the set of its keys.  *)
(***************************************************************************)
EXTENDS Integers, Sequences, FiniteSets, TLC

VARIABLES
    pc,            \* "running" | "recv_failed" (main returned Err) | "panicked"
    now,           \* the monotonic clock (Instant::now()), seconds
    buffers,       \* FragmentReassembler.buffers
    last_pkt,      \* the packet given to the last process_packet call
    ret,           \* what the last process_packet call returned
    emitted,       \* message id -> reassembled payloads returned so far
    created,       \* message id -> buffers created so far
    delivered,     \* message id -> packets fed to the id's current buffer
    npkts,         \* packets handled so far
    rt_frags,      \* round trip: the slices the payload was split into
    rt_mid,        \* round trip: the message id of the fragments
    rt_order,      \* round trip: the fragment indices fed so far, in order
    sc_entries,    \* scanner: the decoded Vec<Entry> being scanned
    sc_result,     \* scanner: None, or Some of the scan's count and log lines
    packets_received, bytes_received, creates_total,   \* main's counters
    last_stats,    \* main: Instant of the last summary (or of the start)
    last_cleanup,  \* main: Instant of the last sweep (or of the start)
    summaries,     \* main: the times at which a summary line was logged
    found,         \* main: what process_entries gave in the last iteration
    since_arrival, \* main: seconds since the last datagram (or the start)
    seen_at        \* main: message id -> when its latest buffer was created

rvars == <<pc, now, buffers, last_pkt, ret, emitted, created, delivered, npkts>>
tvars == <<rt_frags, rt_mid, rt_order>>
svars == <<sc_entries, sc_result>>
mvars == <<packets_received, bytes_received, creates_total, last_stats,
           last_cleanup, summaries, found, since_arrival, seen_at>>
vars == <<rvars, tvars, svars, mvars>>

----------------------------------------------------------------------------
(* Program constants *)

HEADER_SIZE == 16
MAX_AGE_SECS == 10
CLEANUP_INTERVAL_SECS == 5
STATS_INTERVAL_SECS == 15
U16_MAX == 65535

MAGIC == <<83, 72, 82, 68>>      \* b"SHRD"

(* Bounds of the model *)

MaxPackets == 3      \* packets handled in one behaviour
MaxTime == 15        \* the clock stops here

None == <<>>
Some(x) == <<x>>

----------------------------------------------------------------------------
(* Little-endian integers *)

u16_from_le_bytes(b) == b[1] + 256 * b[2]
u32_from_le_bytes(b) == b[1] + 256 * b[2] + 65536 * b[3] + 16777216 * b[4]

u16_to_le_bytes(n) == <<n % 256, (n \div 256) % 256>>
u32_to_le_bytes(n) ==
    <<n % 256, (n \div 256) % 256, (n \div 65536) % 256, (n \div 16777216) % 256>>

(* A fragment as the sender puts it on the wire: the 16-byte header, then
   the fragment's slice of the payload. *)
EncodeFragment(message_id, fragment_index, total_fragments, total_size, slice) ==
    MAGIC \o u32_to_le_bytes(message_id) \o u16_to_le_bytes(fragment_index)
          \o u16_to_le_bytes(total_fragments) \o u32_to_le_bytes(total_size)
          \o slice

----------------------------------------------------------------------------
(* FragmentReassembler *)

(* Variant: the magic marker is not compared. *)
IsFragment_AnyMagic(data) == Len(data) >= HEADER_SIZE

(* `data.len() >= HEADER_SIZE && &data[0..4] == MAGIC` *)
IsFragment(data) == Len(data) >= HEADER_SIZE /\ SubSeq(data, 1, 4) = MAGIC

ParseHeader(data) ==
    [message_id      |-> u32_from_le_bytes(SubSeq(data, 5, 8)),
     fragment_index  |-> u16_from_le_bytes(SubSeq(data, 9, 10)),
     total_fragments |-> u16_from_le_bytes(SubSeq(data, 11, 12)),
     total_size      |-> u32_from_le_bytes(SubSeq(data, 13, 16)),
     fragment_data   |-> SubSeq(data, HEADER_SIZE + 1, Len(data))]

(* HashMap helpers *)
MapInsert(map, k, v) == [x \in DOMAIN map \cup {k} |-> IF x = k THEN v ELSE map[x]]

(* Variant: the entry stays in the map. *)
MapRemove_Keep(map, k) == map

(* Variant: the whole map is cleared. *)
MapRemove_All(map, k) == <<>>

MapRemove(map, k) == [x \in DOMAIN map \ {k} |-> map[x]]
MapLen(map) == Cardinality(DOMAIN map)

(* self.buffers.entry(message_id).or_insert_with(...) *)
EntryOrInsert(bufs, h, t) ==
    IF h.message_id \in DOMAIN bufs
    THEN bufs
    ELSE MapInsert(bufs, h.message_id,
                   [total_fragments |-> h.total_fragments,
                    total_size      |-> h.total_size,
                    received        |-> <<>>,
                    created_at      |-> t])

(* Variant: the loop runs over 1..=total_fragments. *)
RECURSIVE Reconstruct_FromOne(_, _, _)
Reconstruct_FromOne(received, i, total_fragments) ==
    IF i >= total_fragments
    THEN <<>>
    ELSE (IF i + 1 \in DOMAIN received THEN received[i + 1] ELSE <<>>)
         \o Reconstruct_FromOne(received, i + 1, total_fragments)

(* The loop `for i in 0..total_fragments`: the fragments found are appended
   in index order, an index that is not in the map is skipped. *)
RECURSIVE Reconstruct(_, _, _)
Reconstruct(received, i, total_fragments) ==
    IF i >= total_fragments
    THEN <<>>
    ELSE (IF i \in DOMAIN received THEN received[i] ELSE <<>>)
         \o Reconstruct(received, i + 1, total_fragments)

(* The completion check: the number of stored fragments against the
   total_fragments of the packet's header. *)
IsComplete(entry, h) == MapLen(entry.received) = h.total_fragments

(* process_packet: the map after the call and the value returned. *)
process_packet(bufs, data, t) ==
    IF IsFragment(data)
    THEN LET h == ParseHeader(data)
             with_entry == EntryOrInsert(bufs, h, t)
             entry == [with_entry[h.message_id] EXCEPT
                         !.received = MapInsert(@, h.fragment_index, h.fragment_data)]
             stored == [with_entry EXCEPT ![h.message_id] = entry]
         IN  IF IsComplete(entry, h)
             THEN [buffers |-> MapRemove(stored, h.message_id),
                   ret |-> Some(Reconstruct(entry.received, 0, h.total_fragments))]
             ELSE [buffers |-> stored, ret |-> None]
    ELSE [buffers |-> bufs, ret |-> Some(data)]

(* fragment_index + 1 is a u16 addition (the debug! line): it overflows for
   fragment_index = 65535; a build with overflow checks panics there, a
   build without them wraps, and with the DEBUG level off the sum is not
   evaluated at all. *)
FragmentNumberOverflows(data) ==
    IsFragment(data) /\ ParseHeader(data).fragment_index + 1 > U16_MAX

(* The fragment number the debug! line shows when the expression is
   evaluated without overflow checks: the u16 sum, wrapped. *)
LoggedFragmentNumber(data) ==
    (ParseHeader(data).fragment_index + 1) % (U16_MAX + 1)

(* Variant: every buffer is retained. *)
cleanup_old_KeepAll(bufs, t) == bufs

(* Variant: a buffer of exactly max_age is retained. *)
cleanup_old_KeepAtLimit(bufs, t) ==
    [m \in {x \in DOMAIN bufs : t - bufs[x].created_at <= MAX_AGE_SECS} |-> bufs[m]]

(* cleanup_old: retain the buffers younger than max_age. *)
cleanup_old(bufs, t) ==
    [m \in {x \in DOMAIN bufs : t - bufs[x].created_at < MAX_AGE_SECS} |-> bufs[m]]

----------------------------------------------------------------------------
(* process_entries: the scan of a decoded Vec<Entry>.

   A Pubkey is a number standing for its 32 bytes.  An entry is a record
   [transactions], a transaction [accounts, instructions] (the static account
   keys and the compiled instructions of its message), an instruction
   [program_id_index, accounts, data] with u8 indices. *)

CREATE_DISC == <<24, 30, 200, 40, 5, 28, 7, 119>>

PUMPFUN_PROGRAM_ID == 0

(* Pubkey::to_string: the base58 text of a key. *)
Base58 == <<"6EF8rrecthR5Dkzon8Nwu78hRvfCKubJ14M5uBEwF6P",
            "K1", "K2", "K3", "K4", "K5", "K6", "K7", "K8", "K9">>
to_string(pubkey) == Base58[pubkey + 1]

(* Variant: data of exactly 8 bytes is skipped. *)
IsCreate_LenOffByOne(accounts, ix) ==
    /\ ~(ix.program_id_index >= Len(accounts))
    /\ ~(accounts[ix.program_id_index + 1] # PUMPFUN_PROGRAM_ID)
    /\ ~(Len(ix.data) <= 8)
    /\ SubSeq(ix.data, 1, 8) = CREATE_DISC

(* The three `continue` checks and the discriminator comparison. *)
IsCreate(accounts, ix) ==
    /\ ~(ix.program_id_index >= Len(accounts))
    /\ ~(accounts[ix.program_id_index + 1] # PUMPFUN_PROGRAM_ID)
    /\ ~(Len(ix.data) < 8)
    /\ SubSeq(ix.data, 1, 8) = CREATE_DISC

(* ix.accounts.iter().filter_map(|&idx| accounts.get(idx as usize).copied()) *)
RECURSIVE ResolveAccounts(_, _)
ResolveAccounts(accounts, idxs) ==
    IF idxs = <<>>
    THEN <<>>
    ELSE (IF Head(idxs) < Len(accounts) THEN <<accounts[Head(idxs) + 1]>> ELSE <<>>)
         \o ResolveAccounts(accounts, Tail(idxs))

(* ix_accounts.get(pos).map(|p| p.to_string()).unwrap_or_default() *)
GetString(ix_accounts, pos) ==
    IF pos < Len(ix_accounts) THEN to_string(ix_accounts[pos + 1]) ELSE ""

(* Variant: the creator is read at position 6. *)
DetectionEvent_Creator6(ix_accounts) ==
    [mint          |-> GetString(ix_accounts, 0),
     bonding_curve |-> GetString(ix_accounts, 2),
     creator       |-> GetString(ix_accounts, 6)]

(* The three logged fields: 0: mint, 2: bonding_curve, 7: creator. *)
DetectionEvent(ix_accounts) ==
    [mint          |-> GetString(ix_accounts, 0),
     bonding_curve |-> GetString(ix_accounts, 2),
     creator       |-> GetString(ix_accounts, 7)]

(* Variant: the newest detection is put in front of the earlier ones. *)
ScanInstruction_NewestFirst(st, accounts, ix) ==
    IF IsCreate(accounts, ix)
    THEN [creates_found |-> st.creates_found + 1,
          log |-> <<DetectionEvent(ResolveAccounts(accounts, ix.accounts))>> \o st.log]
    ELSE st

(* One pass of the innermost loop body: st is [creates_found, log]. *)
ScanInstruction(st, accounts, ix) ==
    IF IsCreate(accounts, ix)
    THEN [creates_found |-> st.creates_found + 1,
          log |-> Append(st.log, DetectionEvent(ResolveAccounts(accounts, ix.accounts)))]
    ELSE st

RECURSIVE ScanInstructions(_, _, _)
ScanInstructions(st, accounts, ixs) ==
    IF ixs = <<>>
    THEN st
    ELSE ScanInstructions(ScanInstruction(st, accounts, Head(ixs)), accounts, Tail(ixs))

RECURSIVE ScanTransactions(_, _)
ScanTransactions(st, txs) ==
    IF txs = <<>>
    THEN st
    ELSE ScanTransactions(
             ScanInstructions(st, Head(txs).accounts, Head(txs).instructions),
             Tail(txs))

RECURSIVE ScanEntries(_, _)
ScanEntries(st, entries) ==
    IF entries = <<>>
    THEN st
    ELSE ScanEntries(ScanTransactions(st, Head(entries).transactions), Tail(entries))

(* Lines 108-153: the count returned and the detections logged. *)
scan_entries(entries) == ScanEntries([creates_found |-> 0, log |-> <<>>], entries)

----------------------------------------------------------------------------
(* Inputs of the reassembler *)

MsgIds == {1, 256}
Slices == {<<7>>, <<9>>}

(* Fragments of message 1 with every mix of index, total and content (also
   an index that is not below the total), two well-formed fragments of
   message 256, and a fragment with the largest index a header can carry. *)
FragmentPackets ==
    {EncodeFragment(1, i, n, 2, s) : i \in {0, 1}, n \in {1, 2}, s \in Slices}
    \cup {EncodeFragment(256, i, 2, 2, <<7>>) : i \in {0, 1}}
    \cup {EncodeFragment(1, U16_MAX, 2, 2, <<7>>)}

(* Packets without a fragment header: shorter than the header, the magic
   with 15 bytes, and 16 bytes that do not start with the magic. *)
PlainPackets ==
    {<<7, 9>>,
     MAGIC \o <<1, 0, 0, 0, 0, 0, 1, 0, 1, 0, 0>>,
     <<83, 72, 82, 69>> \o <<1, 0, 0, 0, 0, 0, 1, 0, 1, 0, 0, 0>>}

Packets == FragmentPackets \cup PlainPackets

----------------------------------------------------------------------------
(* The reassembler driven by arbitrary packets, sweeps and the clock *)

(* FragmentReassembler::new, and the history of its calls. *)
ReassemblerNew ==
    /\ now = 0
    /\ buffers = <<>>
    /\ last_pkt = <<>>
    /\ ret = None
    /\ emitted = [m \in MsgIds |-> 0]
    /\ created = [m \in MsgIds |-> 0]
    /\ delivered = [m \in MsgIds |-> {}]
    /\ npkts = 0

NoRoundTrip == rt_frags = <<>> /\ rt_mid = 0 /\ rt_order = <<>>

NoScan == sc_entries = <<>> /\ sc_result = None

(* main's locals as line 178-182 set them. *)
MainLocals ==
    /\ packets_received = 0
    /\ bytes_received = 0
    /\ creates_total = 0
    /\ last_stats = now
    /\ last_cleanup = now
    /\ summaries = <<>>
    /\ found = None
    /\ since_arrival = 0
    /\ seen_at = <<>>

RInit == pc = "running" /\ ReassemblerNew /\ NoRoundTrip /\ NoScan /\ MainLocals

(* The bookkeeping of one process_packet call on the map `pre`: r is what
   the call gave, dlv the packets fed to the buffers of `pre`. *)
Account(pre, dlv, p, r) ==
    IF IsFragment(p)
    THEN LET m == ParseHeader(p).message_id
         IN  /\ emitted' = [emitted EXCEPT ![m] = @ + (IF r.ret # None THEN 1 ELSE 0)]
             /\ created' = [created EXCEPT ![m] = @ + (IF m \in DOMAIN pre THEN 0 ELSE 1)]
             /\ delivered' = [dlv EXCEPT ![m] = IF r.ret # None THEN {} ELSE @ \cup {p}]
    ELSE /\ delivered' = dlv
         /\ UNCHANGED <<emitted, created>>

(* The packets fed to the buffers that are left in `bufs`. *)
DeliveredTo(bufs) ==
    [m \in MsgIds |-> IF m \in DOMAIN bufs THEN delivered[m] ELSE {}]

ProcessPacket(p) ==
    /\ pc = "running"
    /\ npkts < MaxPackets
    /\ LET r == process_packet(buffers, p, now)
       IN  /\ buffers' = r.buffers
           /\ ret' = r.ret
           /\ Account(buffers, delivered, p, r)
    /\ last_pkt' = p
    /\ npkts' = npkts + 1
    /\ UNCHANGED <<pc, now>>
    /\ UNCHANGED <<tvars, svars, mvars>>

(* The same call in a build with overflow checks, for fragment_index 65535:
   the panic comes before the map is touched. *)
ProcessPacketPanic(p) ==
    /\ pc = "running"
    /\ npkts < MaxPackets
    /\ FragmentNumberOverflows(p)
    /\ pc' = "panicked"
    /\ last_pkt' = p
    /\ npkts' = npkts + 1
    /\ ret' = None
    /\ UNCHANGED <<now, buffers, emitted, created, delivered>>
    /\ UNCHANGED <<tvars, svars, mvars>>

CleanupOld ==
    /\ pc = "running"
    /\ buffers' = cleanup_old(buffers, now)
    /\ delivered' = DeliveredTo(buffers')
    /\ UNCHANGED <<pc, now, last_pkt, ret, emitted, created, npkts>>
    /\ UNCHANGED <<tvars, svars, mvars>>

TickSteps == {5}      \* the clock advances by these amounts

(* d seconds pass. *)
Advance(d) ==
    /\ pc = "running"
    /\ now' = now + d
    /\ UNCHANGED <<pc, buffers, last_pkt, ret, emitted, created, delivered, npkts>>
    /\ UNCHANGED <<tvars, svars>>

Tick(d) ==
    /\ now + d <= MaxTime
    /\ Advance(d)
    /\ UNCHANGED mvars

RNext ==
    \/ \E p \in Packets : ProcessPacket(p)
    \/ \E p \in Packets : ProcessPacketPanic(p)
    \/ CleanupOld
    \/ \E d \in TickSteps : Tick(d)

SpecR == RInit /\ [][RNext]_vars

----------------------------------------------------------------------------
(* Claims about the reassembler under arbitrary packets (SpecR) *)

MessageIdOf(p) == ParseHeader(p).message_id

(* C2, as stated: a reassembled payload is returned at most once per message
   identifier, whatever packets arrive and however sweeps are interleaved. *)
C2_AtMostOncePerId == \A m \in MsgIds : emitted[m] <= 1

(* C2, amended: a reassembled payload is returned at most once per buffer.
   The call that returns it removes the buffer, so the payloads returned for
   an identifier, plus the buffer it currently has, never outnumber the
   buffers created for it. *)
C2_AtMostOncePerBuffer ==
    \A m \in MsgIds :
        emitted[m] + (IF m \in DOMAIN buffers THEN 1 ELSE 0) <= created[m]

(* An identifier has been emitted twice, each time from a buffer of its own. *)
C2_Witness == \E m \in MsgIds : emitted[m] = 2 /\ created[m] = 2

(* The buffer of p's message holds p's content at p's index, and p itself
   was fed to that buffer before. *)
IsRedelivery(p) ==
    /\ IsFragment(p)
    /\ LET h == ParseHeader(p)
       IN  /\ p \in delivered[h.message_id]
           /\ h.message_id \in DOMAIN buffers
           /\ h.fragment_index \in DOMAIN buffers[h.message_id].received
           /\ buffers[h.message_id].received[h.fragment_index] = h.fragment_data

(* C3: re-delivering a fragment (same message id, index and content) that
   the message's buffer already holds, before the message completes, returns
   no payload and leaves the buffers as they were, so neither the payload
   reconstructed later nor the number of emissions changes. *)
C3_DuplicateIsIdempotent ==
    [][ (npkts' = npkts + 1 /\ pc' = "running" /\ IsRedelivery(last_pkt'))
        => (ret' = None /\ buffers' = buffers) ]_vars

(* Shorter than 16 bytes, or the first 4 bytes are not "SHRD". *)
C6_IsPlain(p) == Len(p) < 16 \/ SubSeq(p, 1, 4) # <<83, 72, 82, 68>>

(* C6: a packet shorter than 16 bytes, or whose first 4 bytes are not
   "SHRD", is returned unchanged as a complete payload and the call leaves
   the buffer map as it was. *)
C6_PassThrough ==
    [][ (npkts' = npkts + 1 /\ C6_IsPlain(last_pkt'))
        => (ret' = Some(last_pkt') /\ buffers' = buffers) ]_vars

(* A 16-byte packet without the magic came back unchanged while a buffer
   was waiting for fragments. *)
C6_Witness ==
    /\ Len(last_pkt) >= 16
    /\ C6_IsPlain(last_pkt)
    /\ ret = Some(last_pkt)
    /\ DOMAIN buffers # {}

(* The fragment indices the buffer of p's message holds once p is stored. *)
IndicesWith(p) ==
    LET h == ParseHeader(p)
    IN  (IF h.message_id \in DOMAIN buffers
         THEN DOMAIN buffers[h.message_id].received
         ELSE {}) \cup {h.fragment_index}

(* C13: whenever a call with a header-bearing packet passes the completion
   check, the buffer holds a fragment for every index 0..total_fragments-1,
   so the reconstruction skips nothing and the payload returned is the
   concatenation of total_fragments stored fragments. *)
C13_CompletionImpliesDensity ==
    [][ (npkts' = npkts + 1 /\ pc' = "running" /\ IsFragment(last_pkt')
            /\ ret' # None)
        => IndicesWith(last_pkt') =
               0 .. (ParseHeader(last_pkt').total_fragments - 1) ]_vars

(* The fragment count recorded in the buffer of p's message when it was
   created; p's own when p creates the buffer. *)
C14_ExpectedCount(p) ==
    LET h == ParseHeader(p)
    IN  IF h.message_id \in DOMAIN buffers
        THEN buffers[h.message_id].total_fragments
        ELSE h.total_fragments

(* C14: a call with a header-bearing packet returns the payload of its
   message exactly when the number of distinct indices stored for the
   message, this fragment included, equals the fragment count recorded in
   the buffer at its creation, whatever total_fragments the packet carries. *)
C14_ThresholdIsTheBuffers ==
    [][ (npkts' = npkts + 1 /\ pc' = "running" /\ IsFragment(last_pkt'))
        => (ret' # None <=>
               Cardinality(IndicesWith(last_pkt')) = C14_ExpectedCount(last_pkt'))
      ]_vars

(* C15: after a process_packet call returns, the message whose payload the
   call returned has no buffer, a message whose fragment was stored without
   completing has its one buffer, and the buffers of all other message ids
   are as they were before the call. *)
C15_RemovalOnCompletion ==
    [][ (npkts' = npkts + 1 /\ pc' = "running")
        => /\ IsFragment(last_pkt')
                  => (ret' # None <=> MessageIdOf(last_pkt') \notin DOMAIN buffers')
           /\ \A m \in DOMAIN buffers \cup DOMAIN buffers' :
                  (IsFragment(last_pkt') => m # MessageIdOf(last_pkt'))
                  => /\ m \in DOMAIN buffers
                     /\ m \in DOMAIN buffers'
                     /\ buffers'[m] = buffers[m] ]_vars

(* The second fragment of message 1 completed it: its two-byte payload was
   returned, message 1 has no buffer and message 256 still has its own. *)
C15_Witness ==
    /\ IsFragment(last_pkt)
    /\ MessageIdOf(last_pkt) = 1
    /\ ret # None
    /\ Len(ret[1]) = 2
    /\ DOMAIN buffers = {256}
    /\ emitted[1] = 1

(* The content last delivered for each index of p's message, p included. *)
C16_Last(p) ==
    LET h == ParseHeader(p)
        before == IF h.message_id \in DOMAIN buffers
                  THEN buffers[h.message_id].received
                  ELSE <<>>
    IN  [i \in DOMAIN before \cup {h.fragment_index} |->
            IF i = h.fragment_index THEN h.fragment_data ELSE before[i]]

(* The indices of p's message that were delivered before with a content
   other than the last one. *)
C16_Rewritten(p) ==
    {i \in DOMAIN C16_Last(p) :
        \E q \in delivered[MessageIdOf(p)] :
            /\ ParseHeader(q).fragment_index = i
            /\ ParseHeader(q).fragment_data # C16_Last(p)[i]}

(* The bytes of the indices below i, last contents, in index order. *)
RECURSIVE C16_Offset(_, _)
C16_Offset(last, i) ==
    IF i = 0
    THEN 0
    ELSE C16_Offset(last, i - 1) + (IF i - 1 \in DOMAIN last THEN Len(last[i - 1]) ELSE 0)

(* C16: when a fragment index of a message is delivered again with another
   content before the message completes, the buffer holds the new content
   for that index and the same set of indices as before; and the payload
   returned for the message has, at the place of every index that was
   delivered with several contents, the content delivered last. *)
C16_LastWriteWins ==
    [][ (npkts' = npkts + 1 /\ pc' = "running" /\ IsFragment(last_pkt'))
        => LET h == ParseHeader(last_pkt')
               m == h.message_id
               last == C16_Last(last_pkt')
           IN  /\ (ret' = None /\ h.fragment_index \in C16_Rewritten(last_pkt'))
                      => /\ m \in DOMAIN buffers
                         /\ buffers'[m].received = last
                         /\ DOMAIN buffers'[m].received = DOMAIN buffers[m].received
               /\ ret' # None
                      => \A i \in C16_Rewritten(last_pkt') :
                             LET off == C16_Offset(last, i)
                             IN  /\ Len(ret'[1]) >= off + Len(last[i])
                                 /\ SubSeq(ret'[1], off + 1, off + Len(last[i])) = last[i]
      ]_vars

(* A step of the reassembler that is a sweep: no packet is handled and the
   clock stands still. *)
C17_IsSweep == npkts' = npkts /\ now' = now /\ pc' = pc

(* C17, as stated: the sweep removes every buffer older than 10 s, leaves
   every buffer that is not older than 10 s in the map unchanged, and
   returns no payload. *)
C17_SweepKeepsTenSeconds ==
    [][ C17_IsSweep
        => /\ \A m \in DOMAIN buffers :
                  IF now - buffers[m].created_at > MAX_AGE_SECS
                  THEN m \notin DOMAIN buffers'
                  ELSE m \in DOMAIN buffers' /\ buffers'[m] = buffers[m]
           /\ DOMAIN buffers' \subseteq DOMAIN buffers
           /\ ret' = ret /\ emitted' = emitted ]_vars

(* C17, amended: the sweep removes every buffer whose age is 10 s or more,
   however many fragments it holds, leaves every buffer younger than 10 s
   in the map with its creation time, expected count and fragments
   unchanged, and returns no payload. *)
C17_SweepEffect ==
    [][ C17_IsSweep
        => /\ \A m \in DOMAIN buffers :
                  IF now - buffers[m].created_at >= MAX_AGE_SECS
                  THEN m \notin DOMAIN buffers'
                  ELSE m \in DOMAIN buffers' /\ buffers'[m] = buffers[m]
           /\ DOMAIN buffers' \subseteq DOMAIN buffers
           /\ ret' = ret /\ emitted' = emitted ]_vars

(* The buffer of message 1, created at 0 and never completed, is gone at
   10 s, and the buffer of message 256, created at 5 s, is still there with
   its fragment. *)
C17_Witness ==
    /\ now = MAX_AGE_SECS
    /\ created[1] = 1
    /\ emitted[1] = 0
    /\ DOMAIN buffers = {256}
    /\ buffers[256].created_at = CLEANUP_INTERVAL_SECS
    /\ DOMAIN buffers[256].received # {}

(* C19: for every packet with a fragment header, fragment_index 65535
   included, the call does not panic and the 1-based fragment number it
   computes as a u16 is fragment_index + 1, not a wrapped value. *)
C19_NoOverflow ==
    [][ (npkts' = npkts + 1 /\ IsFragment(last_pkt'))
        => /\ pc' # "panicked"
           /\ LoggedFragmentNumber(last_pkt') =
                  ParseHeader(last_pkt').fragment_index + 1 ]_vars

----------------------------------------------------------------------------
(* Round trip: a payload is split into N slices, each sent once as a
   well-formed fragment, in any order, to a fresh reassembler. *)

MaxN == 3            \* fragments of the round-trip message
MaxSliceLen == 1     \* bytes in one slice

Bytes == {7, 9}
SlicesUpTo(n) == UNION {[1 .. k -> Bytes] : k \in 0 .. n}

RECURSIVE Flatten(_)
Flatten(ss) == IF ss = <<>> THEN <<>> ELSE Head(ss) \o Flatten(Tail(ss))

Range(f) == {f[x] : x \in DOMAIN f}

TInit ==
    /\ pc = "running"
    /\ ReassemblerNew
    /\ rt_mid \in MsgIds
    /\ rt_frags \in UNION {[1 .. n -> SlicesUpTo(MaxSliceLen)] : n \in 1 .. MaxN}
    /\ rt_order = <<>>
    /\ NoScan
    /\ MainLocals

(* The i-th fragment (0-based) with its correctly constructed header. *)
RtPacket(i) ==
    EncodeFragment(rt_mid, i, Len(rt_frags), Len(Flatten(rt_frags)), rt_frags[i + 1])

Feed(i) ==
    /\ pc = "running"
    /\ i \notin Range(rt_order)
    /\ LET p == RtPacket(i)
           r == process_packet(buffers, p, now)
       IN  /\ buffers' = r.buffers
           /\ ret' = r.ret
           /\ Account(buffers, delivered, p, r)
           /\ last_pkt' = p
    /\ rt_order' = Append(rt_order, i)
    /\ npkts' = npkts + 1
    /\ UNCHANGED <<pc, now, rt_frags, rt_mid>>
    /\ UNCHANGED <<svars, mvars>>

TNext == \E i \in 0 .. Len(rt_frags) - 1 : Feed(i)

SpecT == TInit /\ [][TNext]_vars

(* C1: the first N-1 calls return None and the N-th returns the original
   payload, the slices put together by index whatever the order of arrival;
   the message is returned once. *)
C1_RoundTrip ==
    npkts > 0 =>
        IF Len(rt_order) = Len(rt_frags)
        THEN /\ ret = Some(Flatten(rt_frags))
             /\ emitted[rt_mid] = 1
        ELSE /\ ret = None
             /\ emitted[rt_mid] = 0

(* Three fragments with different content arrived last-first and the
   payload came back in index order. *)
C1_Witness ==
    /\ rt_frags = << <<7>>, <<9>>, <<9>> >>
    /\ rt_order = <<2, 1, 0>>
    /\ ret = Some(<<7, 9, 9>>)

----------------------------------------------------------------------------
(* The scanner applied to bounded inputs *)

MaxIxs == 2          \* instructions in one transaction

(* Nine keys with the program at index 8; three keys with the program at
   index 0; two keys without the program. *)
AccountLists == {<<1, 2, 3, 4, 5, 6, 7, 8, 0>>, <<0, 1, 2>>, <<1, 2>>}

ProgramIdIndexes == {0, 8, 9}
IxAccountLists == {<<0, 1, 2, 3, 4, 5, 6, 7>>, <<0, 200, 1, 2>>, <<>>}
IxDatas == {CREATE_DISC,
            CREATE_DISC \o <<1>>,
            SubSeq(CREATE_DISC, 1, 7),
            <<24, 30, 200, 40, 5, 28, 7, 120>>}

Instructions ==
    [program_id_index : ProgramIdIndexes, accounts : IxAccountLists, data : IxDatas]

Transactions ==
    [accounts : AccountLists,
     instructions : UNION {[1 .. n -> Instructions] : n \in 0 .. MaxIxs}]

Entry(txs) == [transactions |-> txs]

(* A matching instruction with eight accounts, one whose data is too short,
   and a matching one with an out-of-range account index, alone in their
   transactions: for payloads of several entries and transactions. *)
SmallTransactions ==
    {[accounts |-> <<1, 2, 3, 4, 5, 6, 7, 8, 0>>,
      instructions |-> <<[program_id_index |-> 8, accounts |-> a, data |-> d]>>] :
        a \in {<<0, 1, 2, 3, 4, 5, 6, 7>>, <<0, 200, 1, 2>>},
        d \in {CREATE_DISC, SubSeq(CREATE_DISC, 1, 7)}}

ScanInputs ==
    {<<Entry(<<tx>>)>> : tx \in Transactions}
    \cup {<<Entry(<<t1>>), Entry(<<>>), Entry(<<t2, t3>>)>> :
            t1 \in SmallTransactions, t2 \in SmallTransactions, t3 \in SmallTransactions}

SInit ==
    /\ pc = "running"
    /\ ReassemblerNew
    /\ NoRoundTrip
    /\ sc_entries \in ScanInputs
    /\ sc_result = None
    /\ MainLocals

Scan ==
    /\ sc_result = None
    /\ sc_result' = Some(scan_entries(sc_entries))
    /\ UNCHANGED <<rvars, tvars, mvars, sc_entries>>

SNext == Scan

SpecS == SInit /\ [][SNext]_vars

(* The instructions of a payload in order (entry, transaction, instruction),
   each with the account list of its transaction. *)
RECURSIVE FlatTx(_, _)
FlatTx(accounts, ixs) ==
    IF ixs = <<>>
    THEN <<>>
    ELSE <<[accounts |-> accounts, ix |-> Head(ixs)]>> \o FlatTx(accounts, Tail(ixs))

RECURSIVE FlatTxs(_)
FlatTxs(txs) ==
    IF txs = <<>>
    THEN <<>>
    ELSE FlatTx(Head(txs).accounts, Head(txs).instructions) \o FlatTxs(Tail(txs))

RECURSIVE FlatEntries(_)
FlatEntries(entries) ==
    IF entries = <<>>
    THEN <<>>
    ELSE FlatTxs(Head(entries).transactions) \o FlatEntries(Tail(entries))

(* The match rule in the claim's words. *)
C7_Matches(x) ==
    /\ x.ix.program_id_index + 1 \in DOMAIN x.accounts
    /\ x.accounts[x.ix.program_id_index + 1] = PUMPFUN_PROGRAM_ID
    /\ Len(x.ix.data) >= 8
    /\ \A k \in 1 .. 8 : x.ix.data[k] = CREATE_DISC[k]

(* C7: the count returned is the number of instructions of the payload whose
   program id index is in range, whose program is the target, and whose data
   has at least 8 bytes that start with the CREATE discriminator; nothing
   else is counted and nothing is deduplicated. *)
C7_MatchRule ==
    sc_result # None =>
        sc_result[1].creates_found =
            Cardinality({j \in DOMAIN FlatEntries(sc_entries) :
                            C7_Matches(FlatEntries(sc_entries)[j])})

(* The same matching instruction twice in a transaction, each counted. *)
C7_Witness ==
    /\ sc_result # None
    /\ sc_result[1].creates_found = 2
    /\ Len(sc_entries) = 1
    /\ LET ixs == sc_entries[1].transactions[1].instructions
       IN  Len(ixs) = 2 /\ ixs[1] = ixs[2] /\ Len(ixs[1].data) = 8

(* The account indices of an instruction that are in range, resolved. *)
C8_Resolved(x) ==
    LET inrange == SelectSeq(x.ix.accounts, LAMBDA i : i < Len(x.accounts))
    IN  [j \in 1 .. Len(inrange) |-> x.accounts[inrange[j] + 1]]

C8_Field(resolved, pos) ==
    IF Len(resolved) >= pos + 1 THEN to_string(resolved[pos + 1]) ELSE ""

(* C8: each matching instruction gives one detection, in order, whose mint,
   bonding curve and creator are positions 0, 2 and 7 of the instruction's
   resolved account list (out-of-range indices dropped); a position beyond
   the list gives an empty field. *)
C8_PositionalFields ==
    sc_result # None =>
        LET matches == SelectSeq(FlatEntries(sc_entries), C7_Matches)
            log == sc_result[1].log
        IN  /\ Len(log) = Len(matches)
            /\ \A j \in 1 .. Len(matches) :
                   LET resolved == C8_Resolved(matches[j])
                   IN  /\ log[j].mint = C8_Field(resolved, 0)
                       /\ log[j].bonding_curve = C8_Field(resolved, 2)
                       /\ log[j].creator = C8_Field(resolved, 7)

(* One detection with the fields (A0, A2, A7) of eight resolved accounts and
   one with an index dropped and no creator. *)
C8_Witness ==
    /\ sc_result # None
    /\ sc_result[1].log =
           <<[mint |-> "K1", bonding_curve |-> "K3", creator |-> "K8"],
             [mint |-> "K1", bonding_curve |-> "K3", creator |-> ""]>>

----------------------------------------------------------------------------
(* process_entries with its decoder.

   bincode::deserialize::<Vec<Entry>> is a library call.  The model fixes by
   a table which payloads are the encoding of which entries; every other
   payload is a decode error. *)

Err == [ok |-> FALSE]
Ok(v) == [ok |-> TRUE, value |-> v]

WireAccounts == <<1, 2, 3, 4, 5, 6, 7, 8, 0>>

WireCreate(ix_accounts) ==
    [program_id_index |-> 8, accounts |-> ix_accounts, data |-> CREATE_DISC \o <<1>>]

WireOther == [program_id_index |-> 0, accounts |-> <<1, 2>>, data |-> CREATE_DISC]

Deserialize(data) ==
    CASE data = <<7, 9>> ->
             Ok(<<Entry(<<[accounts |-> WireAccounts,
                           instructions |-> <<WireCreate(<<0, 1, 2, 3, 4, 5, 6, 7>>)>>]>>),
                  Entry(<<[accounts |-> WireAccounts,
                           instructions |-> <<WireOther, WireCreate(<<3, 4, 5>>)>>]>>)>>)
      [] data = <<7, 7>> ->
             Ok(<<Entry(<<[accounts |-> WireAccounts, instructions |-> <<WireOther>>]>>)>>)
      [] OTHER -> Err

(* Variant: the failure arm returns 1. *)
process_entries_FailureCounts(data) ==
    LET decoded == Deserialize(data)
    IN  IF decoded.ok
        THEN scan_entries(decoded.value)
        ELSE [creates_found |-> 1, log |-> <<>>]

(* process_entries: the count returned and the detections logged; a payload
   that does not deserialize gives 0 (and a warning). *)
process_entries(data) ==
    LET decoded == Deserialize(data)
    IN  IF decoded.ok
        THEN scan_entries(decoded.value)
        ELSE [creates_found |-> 0, log |-> <<>>]

----------------------------------------------------------------------------
(* main: the bind and the receive loop.  One iteration of the loop is one
   step; the clock does not move within it. *)

(* Variant: the summary uses the sweep's interval. *)
StatsDue_SweepInterval(t, since) == t - since >= CLEANUP_INTERVAL_SECS

(* Variant: the interval is measured from the start of main, not from the
   previous summary. *)
StatsDue_FromStart(t, since) == t >= STATS_INTERVAL_SECS

(* last_stats.elapsed() >= Duration::from_secs(15) *)
StatsDue(t, since) == t - since >= STATS_INTERVAL_SECS

(* last_cleanup.elapsed() >= Duration::from_secs(5) *)
CleanupDue(t, since) == t - since >= CLEANUP_INTERVAL_SECS

MInit == pc = "start" /\ ReassemblerNew /\ NoRoundTrip /\ NoScan /\ MainLocals

(* UdpSocket::bind(&bind_addr).await? *)
Bind(ok) ==
    /\ pc = "start"
    /\ pc' = IF ok THEN "running" ELSE "bind_failed"
    /\ UNCHANGED <<now, buffers, last_pkt, ret, emitted, created, delivered, npkts>>
    /\ UNCHANGED <<tvars, svars, mvars>>

(* recv_from gave the datagram p: lines 186-216. *)
Recv(p) ==
    /\ pc = "running"
    /\ LET sweep == CleanupDue(now, last_cleanup)
           swept == IF sweep THEN cleanup_old(buffers, now) ELSE buffers
           r == process_packet(swept, p, now)
           pe == IF r.ret # None THEN Some(process_entries(r.ret[1])) ELSE None
           total == creates_total + (IF pe # None THEN pe[1].creates_found ELSE 0)
           flush == StatsDue(now, last_stats)
       IN  /\ last_cleanup' = IF sweep THEN now ELSE last_cleanup
           /\ buffers' = r.buffers
           /\ ret' = r.ret
           /\ Account(swept, DeliveredTo(swept), p, r)
           /\ found' = pe
           /\ packets_received' = IF flush THEN 0 ELSE packets_received + 1
           /\ bytes_received' = IF flush THEN 0 ELSE bytes_received + Len(p)
           /\ creates_total' = IF flush THEN 0 ELSE total
           /\ last_stats' = IF flush THEN now ELSE last_stats
           /\ summaries' = IF flush THEN Append(summaries, now) ELSE summaries
           /\ seen_at' = IF IsFragment(p) /\ MessageIdOf(p) \notin DOMAIN swept
                         THEN MapInsert(seen_at, MessageIdOf(p), now)
                         ELSE seen_at
    /\ last_pkt' = p
    /\ npkts' = npkts + 1
    /\ since_arrival' = 0
    /\ UNCHANGED <<pc, now>>
    /\ UNCHANGED <<tvars, svars>>

(* The same in a build with overflow checks, for fragment_index 65535: the
   counters and the sweep are done, then process_packet panics. *)
RecvPanic(p) ==
    /\ pc = "running"
    /\ FragmentNumberOverflows(p)
    /\ pc' = "panicked"
    /\ LET sweep == CleanupDue(now, last_cleanup)
       IN  /\ last_cleanup' = IF sweep THEN now ELSE last_cleanup
           /\ buffers' = IF sweep THEN cleanup_old(buffers, now) ELSE buffers
    /\ delivered' = DeliveredTo(buffers')
    /\ packets_received' = packets_received + 1
    /\ bytes_received' = bytes_received + Len(p)
    /\ last_pkt' = p
    /\ ret' = None
    /\ found' = None
    /\ npkts' = npkts + 1
    /\ since_arrival' = 0
    /\ UNCHANGED <<now, emitted, created, creates_total, last_stats, summaries,
                   seen_at>>
    /\ UNCHANGED <<tvars, svars>>

(* recv_from gave an error: `?` returns it from main. *)
RecvErr ==
    /\ pc = "running"
    /\ pc' = "recv_failed"
    /\ UNCHANGED <<now, buffers, last_pkt, ret, emitted, created, delivered, npkts>>
    /\ UNCHANGED <<tvars, svars, mvars>>

(* d seconds pass while main waits in recv_from. *)
Wait(d) ==
    /\ Advance(d)
    /\ since_arrival' = since_arrival + d
    /\ UNCHANGED <<packets_received, bytes_received, creates_total, last_stats,
                   last_cleanup, summaries, found, seen_at>>

MaxMainPackets == 3  \* datagrams received in one behaviour
MaxMainTime == 20    \* the clock stops here

(* Two fragments of a message that decodes, a one-fragment message that does
   not decode, a plain payload that decodes, a plain one that does not, and
   a fragment with index 65535. *)
MainPackets ==
    {EncodeFragment(1, 0, 2, 2, <<7>>),
     EncodeFragment(1, 1, 2, 2, <<9>>),
     EncodeFragment(256, 0, 1, 1, <<9>>),
     <<7, 9>>,
     <<9, 9, 9>>,
     EncodeFragment(256, U16_MAX, 2, 2, <<7>>)}

WaitSteps == {3, 5}   \* main waits these amounts for a datagram

MNext ==
    \/ \E ok \in BOOLEAN : Bind(ok)
    \/ \E p \in MainPackets : npkts < MaxMainPackets /\ Recv(p)
    \/ \E p \in MainPackets : npkts < MaxMainPackets /\ RecvPanic(p)
    \/ RecvErr
    \/ \E d \in WaitSteps : now + d <= MaxMainTime /\ Wait(d)

SpecM == MInit /\ [][MNext]_vars

(* A stream of datagrams: at most one per second, and never more than MaxGap
   seconds without one. *)
MaxGap == 2          \* the longest silence of the stream, seconds
MaxStreamTime == 32  \* the clock stops here

StreamPackets == {<<7, 9>>, <<9, 9, 9>>}

StreamNext ==
    \/ \E ok \in BOOLEAN : Bind(ok)
    \/ \E p \in StreamPackets : since_arrival > 0 /\ Recv(p)
    \/ \E d \in 1 .. MaxGap :
           now + d <= MaxStreamTime /\ since_arrival + d <= MaxGap /\ Wait(d)

SpecStream == MInit /\ [][StreamNext]_vars

(* Sustained fragment traffic: the same stream, carrying the first fragment
   of two messages, again and again; their second fragments never come. *)
MaxSustainedTime == 20   \* the clock stops here

SustainedPackets ==
    {EncodeFragment(1, 0, 2, 2, <<7>>),
     EncodeFragment(256, 0, 2, 2, <<7>>)}

SustainedNext ==
    \/ \E ok \in BOOLEAN : Bind(ok)
    \/ \E p \in SustainedPackets : since_arrival > 0 /\ Recv(p)
    \/ \E d \in 1 .. MaxGap :
           now + d <= MaxSustainedTime /\ since_arrival + d <= MaxGap /\ Wait(d)

SpecSustained == MInit /\ [][SustainedNext]_vars

----------------------------------------------------------------------------
(* Claims about main under arbitrary datagrams and silences (SpecM) *)

(* C4: the sweep does not depend on datagrams arriving: a buffer that got no
   datagram since the one that created it is removed once it is older than
   the time-to-live plus one sweep period. *)
C4_SweptWithoutArrival ==
    \A m \in DOMAIN buffers :
        LET age == now - buffers[m].created_at
        IN  since_arrival = age => age <= MAX_AGE_SECS + CLEANUP_INTERVAL_SECS

(* C5: once the socket is bound the loop never ends: main neither returns
   nor panics. *)
C5_LoopNeverEnds == pc \in {"start", "bind_failed", "running"}

(* C9: when a complete payload does not deserialize, process_entries gives
   zero detections, main goes on running with its count of detections as it
   was (or reset by a summary), and the buffers of other messages that are
   not due for the sweep stay as they were. *)
C9_DecoderResilience ==
    [][ (npkts' = npkts + 1 /\ ret' # None /\ ~Deserialize(ret'[1]).ok)
        => /\ found' = Some([creates_found |-> 0, log |-> <<>>])
           /\ pc' = "running"
           /\ creates_total' =
                  IF Len(summaries') > Len(summaries) THEN 0 ELSE creates_total
           /\ \A m \in DOMAIN buffers :
                  ( /\ now - buffers[m].created_at < MAX_AGE_SECS
                    /\ (IsFragment(last_pkt') => MessageIdOf(last_pkt') # m) )
                  => (m \in DOMAIN buffers' /\ buffers'[m] = buffers[m]) ]_vars

(* A payload failed to decode while a buffer was waiting and two detections
   were already counted; main is still running. *)
C9_Witness ==
    /\ pc = "running"
    /\ ret # None
    /\ ~Deserialize(ret[1]).ok
    /\ found = Some([creates_found |-> 0, log |-> <<>>])
    /\ DOMAIN buffers # {}
    /\ creates_total = 2

(* C11: a summary is emitted only when at least 15 s have passed since the
   previous one (or since the start), and the step that emits it leaves the
   three counters at zero and the start of the window at the current time;
   in a step taken while the interval has not passed no summary is emitted,
   the window keeps its start and no counter decreases. *)
C11_StatsReset ==
    [][ /\ (Len(summaries') > Len(summaries))
           => /\ now' - last_stats >= STATS_INTERVAL_SECS
              /\ Len(summaries') = Len(summaries) + 1
              /\ packets_received' = 0
              /\ bytes_received' = 0
              /\ creates_total' = 0
              /\ last_stats' = now'
        /\ (now' - last_stats < STATS_INTERVAL_SECS)
           => /\ summaries' = summaries
              /\ last_stats' = last_stats
              /\ packets_received' >= packets_received
              /\ bytes_received' >= bytes_received
              /\ creates_total' >= creates_total ]_vars

(* A summary was emitted by the iteration that found two detections: the
   three counters are back at zero and the window starts now. *)
C11_Witness ==
    /\ pc = "running"
    /\ Len(summaries) = 1
    /\ since_arrival = 0
    /\ found # None
    /\ found[1].creates_found = 2
    /\ packets_received = 0
    /\ bytes_received = 0
    /\ creates_total = 0
    /\ last_stats = now
    /\ now >= STATS_INTERVAL_SECS

(* The detections a payload should give: one for each matching instruction,
   in the order entry, transaction, instruction. *)
C12_Expected(payload) ==
    LET decoded == Deserialize(payload)
        matches == IF decoded.ok
                   THEN SelectSeq(FlatEntries(decoded.value), C7_Matches)
                   ELSE <<>>
    IN  [j \in 1 .. Len(matches) |-> DetectionEvent(C8_Resolved(matches[j]))]

(* C12: the payload a datagram completes is decoded and scanned in the
   iteration that received that datagram, before the next datagram is
   received, so payloads are scanned one at a time in the order they were
   completed; an iteration that completes no payload scans nothing; and the
   detections of a payload come in the order of their instructions (entry,
   then transaction, then instruction). *)
C12_Ordering ==
    [][ (npkts' = npkts + 1 /\ pc' = "running")
        => IF ret' = None
           THEN found' = None /\ creates_total' \in {0, creates_total}
           ELSE /\ found' # None
                /\ found'[1].log = C12_Expected(ret'[1])
                /\ found'[1].creates_found = Len(found'[1].log)
                /\ creates_total' \in {0, creates_total + Len(found'[1].log)} ]_vars

(* A payload completed by the second of two fragments gave its two
   detections in instruction order, after an earlier payload was scanned. *)
C12_Witness ==
    /\ pc = "running"
    /\ IsFragment(last_pkt)
    /\ ret = Some(<<7, 9>>)
    /\ found # None
    /\ found[1].log =
           <<[mint |-> "K1", bonding_curve |-> "K3", creator |-> "K8"],
             [mint |-> "K4", bonding_curve |-> "K6", creator |-> ""]>>
    /\ creates_total = 4

----------------------------------------------------------------------------
(* Claims about main under a continuous stream (SpecStream) *)

(* C10, as stated: after a datagram is handled, the number of summaries is
   the number of 15 s intervals elapsed since the start. *)
C10_OneSummaryPerInterval ==
    (pc = "running" /\ npkts > 0 /\ since_arrival = 0)
        => Len(summaries) = now \div STATS_INTERVAL_SECS

C10_Previous(j) == IF j = 1 THEN 0 ELSE summaries[j - 1]

(* C10, amended: with datagrams at most MaxGap seconds apart, each summary
   comes at least 15 s and less than 15 s + MaxGap after the previous one
   (the first: after the start), and the next one is never later than that. *)
C10_AtMostOnePerInterval ==
    /\ \A j \in 1 .. Len(summaries) :
           /\ summaries[j] - C10_Previous(j) >= STATS_INTERVAL_SECS
           /\ summaries[j] - C10_Previous(j) < STATS_INTERVAL_SECS + MaxGap
    /\ last_stats = C10_Previous(Len(summaries) + 1)
    /\ now - last_stats < STATS_INTERVAL_SECS + MaxGap

(* Two summaries, the first of them late. *)
C10_Witness ==
    /\ Len(summaries) = 2
    /\ summaries[1] > STATS_INTERVAL_SECS
    /\ now >= 2 * STATS_INTERVAL_SECS

----------------------------------------------------------------------------
(* Claims about main under sustained fragment traffic (SpecSustained) *)

(* The longest a buffer stays in the map: time-to-live, sweep period, and
   the longest silence of the stream. *)
C18_Window == MAX_AGE_SECS + CLEANUP_INTERVAL_SECS + MaxGap

(* C18: with datagrams at most MaxGap seconds apart, two sweeps are at
   least 5 s apart, the sweep of an iteration is done before its packet is
   processed (a fragment whose message has a buffer that is due for removal
   starts a new buffer), no buffer is in the map later than
   10 s + 5 s + MaxGap after its creation, and the buffers never outnumber
   the message ids whose buffer was created within that window. *)
C18_BoundedLifetime ==
    [][ /\ (last_cleanup' # last_cleanup)
           => last_cleanup' - last_cleanup >= CLEANUP_INTERVAL_SECS
        /\ (npkts' = npkts + 1 /\ last_cleanup' # last_cleanup)
           => \A m \in DOMAIN buffers :
                  (now - buffers[m].created_at >= MAX_AGE_SECS /\ m \in DOMAIN buffers')
                  => /\ buffers'[m].created_at = now'
                     /\ MapLen(buffers'[m].received) = 1
        /\ \A m \in DOMAIN buffers' :
               now' - buffers'[m].created_at <= C18_Window
        /\ Cardinality(DOMAIN buffers') <=
               Cardinality({m \in DOMAIN seen_at' : now' - seen_at'[m] <= C18_Window})
      ]_vars

(* The buffer of message 1 never completed, stayed in the map beyond the
   time-to-live plus one sweep period, and was removed by the sweep of the
   datagram that has just been handled. *)
C18_Witness ==
    /\ pc = "running"
    /\ created[1] = 1
    /\ emitted[1] = 0
    /\ 1 \notin DOMAIN buffers
    /\ 256 \in DOMAIN buffers
    /\ last_cleanup = now
    /\ since_arrival = 0
    /\ now - seen_at[1] >= MAX_AGE_SECS + CLEANUP_INTERVAL_SECS

====
